---- MODULE Spec2Model ----
(***************************************************************************)
(* A model of the PINNs training orchestrator of                           *)
(* ZPG-boundary-layer/PINN_ZPG.py: the normalizer (fit_scale, fit_scalex,  *)
(* scalex, scale_r), the shape behaviour of train_step / net_f, the two    *)
(* phase fit loop with its phase-2 closure func, and predict.               *)
(*                                                                         *)
(* Tensors are matrices (sequences of rows).  Raw data are integers; a     *)
(* scaled value is the exact quotient n/d, kept as the reduced pair        *)
(* <<n, d>> (d > 0), with <<0,0>> for 0/0 (NaN) and <<+-1,0>> for +-Inf.   *)
(* The approximator, its loss and its gradient are opaque: they are kept   *)
(* as uninterpreted terms of the parameters and of the tensors they read.  *)
(***************************************************************************)
EXTENDS Integers, Sequences, FiniteSets, TLC

\* ---------------------------------------------------------------- bounds
MaxFits == 2        \* fit calls made on one object
MaxEpochs == 2      \* the configured phase-1 epoch count is 0 or MaxEpochs
MaxClosure == 2     \* closure invocations one minimize call may make
MaxAbs == 2         \* raw values handed to the normalizer alone: -MaxAbs..MaxAbs

VARIABLES
    \* the PINNs object
    trainable_variables, \* the approximator's parameters (self.model's weights)
    optimizer,           \* the injected phase-1 update rule
    epochs,              \* self.epochs
    hist,                \* self.hist
    epoch,               \* self.epoch
    attrs,               \* which of the attributes xmin, xmax, ymax exist
    xmin, xmax, ymax,    \* their values (<<>> while the attribute is missing)
    \* the running fit call
    pc,                  \* "idle", "phase1", "phase2" (inside minimize), "done"
    k,                   \* iterations of the phase-1 loop completed
    bc, cp,              \* fit's locals after normalization
    \* what the last call gave back
    ret,                 \* [kind, val] of the last completed fit / predict
    funcRet,             \* what the last closure invocation returned to minimize
    \* history variables (not program state)
    lastOp,              \* the step taken last
    fitCalls,            \* fit calls begun so far
    h0,                  \* Len(hist) when the running / last fit call began
    inW,                 \* <<boundary row width, collocation row width>> handed to it
    nClosure,            \* closure invocations in it
    nMinimize,           \* sopt.minimize invocations in it
    nReturned,           \* returns of sopt.minimize in it
    nApplied,            \* optimizer.apply_gradients invocations in it
    nFitScale,           \* fit_scale invocations in it
    nFitScalex,          \* fit_scalex invocations in it
    funcArg,             \* the flat vector of the last closure invocation
    lastPred,            \* <<points, result, repeated>> of the last predict since the
                         \* last fit began; repeated: the predict before it, with no fit
                         \* between, was handed the same points
    \* the normalizer exercised on its own
    scx, scxs            \* an input x and the scaled tensor last computed from it

obj == <<trainable_variables, optimizer, epochs, hist, epoch>>
norm == <<attrs, xmin, xmax, ymax>>
call == <<pc, k, bc, cp>>
outs == <<ret, funcRet>>
ghost == <<lastOp, fitCalls, h0, inW, nClosure, nMinimize, nReturned, nApplied,
           nFitScale, nFitScalex, funcArg, lastPred>>
scl == <<scx, scxs>>
vars == <<obj, norm, call, outs, ghost, scl>>

\* ------------------------------------------------------------- arithmetic
Abs(v) == IF v < 0 THEN -v ELSE v

Sign(v) == IF v < 0 THEN -1 ELSE IF v > 0 THEN 1 ELSE 0

RECURSIVE GCD(_, _)
GCD(a, b) == IF b = 0 THEN a ELSE GCD(b, a % b)

\* n / d as float division gives it, exactly
Frac(n, d) ==
    IF d = 0 THEN <<Sign(n), 0>>
    ELSE LET g == GCD(Abs(n), Abs(d))
             s == IF d < 0 THEN -1 ELSE 1
         IN  <<(s * n) \div g, (s * d) \div g>>

MaxOf(S) == CHOOSE v \in S : \A w \in S : w <= v
MinOf(S) == CHOOSE v \in S : \A w \in S : v <= w

\* --------------------------------------------------------------- tensors
Rows(m) == Len(m)
Width(m) == Len(m[1])
Shape(m) == <<Rows(m), Width(m)>>
Column(m, j) == {m[r][j] : r \in 1..Rows(m)}

\* m[:, :n]
ColsTo(m, n) ==
    [r \in 1..Rows(m) |->
        SubSeq(m[r], 1, IF Width(m) < n THEN Width(m) ELSE n)]

\* m[:, n:]   (n counted from 0, as the source does)
ColsFrom(m, n) ==
    [r \in 1..Rows(m) |->
        IF Width(m) <= n THEN <<>> ELSE SubSeq(m[r], n + 1, Width(m))]

\* tf.concat([a, b], axis=1)
concat(a, b) == [r \in 1..Rows(a) |-> a[r] \o b[r]]

\* the broadcast of two dimensions; -1 when they are incompatible
BDim(a, b) == IF a = b THEN a ELSE IF a = 1 THEN b ELSE IF b = 1 THEN a ELSE -1

\* the index broadcasting reads in a dimension of size n for output index j
BIdx(n, j) == IF n = 1 THEN 1 ELSE j

\* --------------------------------------------------------------- inputs
Base == << <<0, 0, 1, -2, 3, 1>>, <<2, 1, -1, 1, 0, 2>> >>

\* boundary data of width w: the first w columns of Base
BcOf(w) == [r \in 1..Len(Base) |-> SubSeq(Base[r], 1, w)]

CpOf(w) == [r \in 1..2 |-> [j \in 1..w |-> r + j - 2]]

\* the (boundary, collocation) arrays handed to fit: the contract's widths (5, 2)
\* and boundary widths 3, 4 and collocation widths 1, 3 beside them
FitInputs ==
    {<<BcOf(5), CpOf(2)>>} \cup {<<BcOf(w), CpOf(2)>> : w \in {3, 4}}
        \cup {<<BcOf(5), CpOf(w)>> : w \in {1, 3}}

PredictInputs == {<< <<0, 0>> >>, << <<2, 1>> >>}

\* the approximator's parameters, as abstract points, and the flat vectors the
\* quasi-Newton optimizer may hand to the closure
Params == {"w0", "w1"}
InitParams == "w0"
FlatParams == Params

\* phase-1 update rules an injected optimizer may implement
OptRules == {[p \in Params |-> IF p = "w0" THEN "w1" ELSE "w0"],
             [p \in Params |-> "w1"]}

\* ------------------------------------------------------------ normalizer
\* fit_scale: ymax = reduce_max(abs(y), axis=0)
fit_scale_ymax(y) == [j \in 1..Width(y) |-> MaxOf({Abs(v) : v \in Column(y, j)})]

\* fit_scale's return value y / ymax
fit_scale(y) ==
    LET m == fit_scale_ymax(y)
    IN  [r \in 1..Rows(y) |-> [j \in 1..Width(y) |-> Frac(y[r][j], m[j])]]

\* fit_scalex: xmax = reduce_max(abs(x), axis=0)
fit_scalex_xmax(x) == [j \in 1..Width(x) |-> MaxOf({Abs(v) : v \in Column(x, j)})]

\* fit_scalex: xmin = reduce_min(x, axis=0)
fit_scalex_xmin(x) == [j \in 1..Width(x) |-> MinOf(Column(x, j))]

\* (x - mn) / (mx - mn) with mn, mx vectors broadcast over the rows of x:
\* [ok |-> FALSE] when the widths do not broadcast
ScaleWith(x, mn, mx) ==
    LET w == BDim(Width(x), Len(mn))
    IN  IF w = -1 THEN [ok |-> FALSE, val |-> <<>>]
        ELSE [ok |-> TRUE,
              val |-> [r \in 1..Rows(x) |-> [j \in 1..w |->
                         Frac(x[r][BIdx(Width(x), j)] - mn[BIdx(Len(mn), j)],
                              mx[BIdx(Len(mx), j)] - mn[BIdx(Len(mn), j)])]]]

\* fit_scalex's return value xs
fit_scalex(x) == ScaleWith(x, fit_scalex_xmin(x), fit_scalex_xmax(x)).val

\* scalex: reads self.xmin and self.xmax, which must exist
scalex(x, at, mn, mx) ==
    IF ~({"xmin", "xmax"} \subseteq at) THEN [ok |-> FALSE, val |-> <<>>]
    ELSE ScaleWith(x, mn, mx)

\* the width of scalex_r(xs) = xs * (xmax - xmin) + xmin, -1 when it raises
scalex_r_width(w, at, mn) ==
    IF ~({"xmin", "xmax"} \subseteq at) THEN -1 ELSE BDim(w, Len(mn))

\* the width of scale_r(ys) = ys * ymax, -1 when it raises
scale_r_width(w, at, ym) ==
    IF "ymax" \notin at THEN -1 ELSE BDim(w, Len(ym))

\* ------------------------------------------------- approximator and losses
\* the approximator maps rows of ApproxIn coordinates to rows of ApproxOut outputs
ApproxIn == 2
ApproxOut == 3

\* net_f: the shape of the residual tensor f, [ok |-> FALSE] when an operation
\* in it raises.  It reads the normalization state and assigns nothing.
net_f(c, at, mn, ym) ==
    LET w1 == scalex_r_width(Width(c), at, mn)        \* cp = self.scalex_r(cp)
        w2 == BDim(ApproxIn, Len(mn))                 \* X = self.scalex(stack([x, y]))
        w3 == scale_r_width(ApproxOut, at, ym)        \* pred = self.scale_r(self.model(X))
    IN  IF /\ w1 >= 2                                 \* x = cp[:, 0]; y = cp[:, 1]
           /\ w2 = ApproxIn
           /\ w3 >= 3                                 \* U, V, uv = pred[:, 0..2]
        THEN [ok |-> TRUE, shape |-> <<Rows(c), 3>>]
        ELSE [ok |-> FALSE, shape |-> <<>>]

\* the opaque loss terms of train_step for parameters th
loss_bc(th, b) == <<"loss_bc", th, Shape(b)>>
loss_f(th, c) == <<"loss_f", th, Shape(c)>>
loss_sum(th, b, c) == <<"add", loss_bc(th, b), loss_f(th, c)>>
gradient(th, b, c) == <<"grad", th, Shape(b), Shape(c)>>

\* train_step: loss, gradients and the logged triple (total, boundary, PDE), or
\* [ok |-> FALSE] when a shape in it does not fit
train_step(th, b, c, at, mn, ym) ==
    LET X == ColsTo(b, 2)
        y == ColsFrom(b, 2)
        f == net_f(c, at, mn, ym)
    IN  IF /\ Width(X) = ApproxIn                     \* u_p_bc = self.model(X)
           /\ f.ok
           /\ BDim(Width(y), ApproxOut) # -1          \* y - u_p_bc
        THEN [ok |-> TRUE,
              loss |-> loss_sum(th, b, c),
              grads |-> gradient(th, b, c),
              hist |-> <<loss_sum(th, b, c), loss_bc(th, b), loss_f(th, c)>>]
        ELSE [ok |-> FALSE, loss |-> <<>>, grads |-> <<>>, hist |-> <<>>]

\* one entry of self.hist: the triple, with the phase that appended it, the
\* epoch index printed at the start of the step and the fit call it belongs to
Entry(triple, phase) ==
    [triple |-> triple, phase |-> phase, logged |-> epoch, call |-> fitCalls]

\* sopt.assign_params(params_1d): the parameters after installing a flat vector
assign_params(p) == p

\* tf.dynamic_stitch(self.sopt.idx, grads)
dynamic_stitch(grads) == <<"stitch", "sopt.idx", grads>>

None == [kind |-> "none", val |-> <<>>]
Error == [kind |-> "error", val |-> <<>>]

\* ---------------------------------------------------------------- __init__
\* (a variant of Init: the constructor gives the scale attributes default values)
Init_defaults ==
    /\ trainable_variables = InitParams
    /\ optimizer \in OptRules
    /\ epochs \in {0, MaxEpochs}
    /\ hist = <<>>
    /\ epoch = 0
    /\ attrs = {"xmin", "xmax", "ymax"}
    /\ xmin = <<0>> /\ xmax = <<1>> /\ ymax = <<1>>
    /\ pc = "idle" /\ k = 0 /\ bc = <<>> /\ cp = <<>>
    /\ ret = None /\ funcRet = <<>>
    /\ lastOp = "init" /\ fitCalls = 0 /\ h0 = 0 /\ inW = <<0, 0>>
    /\ nClosure = 0 /\ nMinimize = 0 /\ nReturned = 0 /\ nApplied = 0
    /\ nFitScale = 0 /\ nFitScalex = 0
    /\ funcArg = "" /\ lastPred = <<>>
    /\ scx = <<>> /\ scxs = <<>>

Init ==
    /\ trainable_variables = InitParams
    /\ optimizer \in OptRules
    /\ epochs \in {0, MaxEpochs}
    /\ hist = <<>>
    /\ epoch = 0
    /\ attrs = {}
    /\ xmin = <<>> /\ xmax = <<>> /\ ymax = <<>>
    /\ pc = "idle" /\ k = 0 /\ bc = <<>> /\ cp = <<>>
    /\ ret = None /\ funcRet = <<>>
    /\ lastOp = "init" /\ fitCalls = 0 /\ h0 = 0 /\ inW = <<0, 0>>
    /\ nClosure = 0 /\ nMinimize = 0 /\ nReturned = 0 /\ nApplied = 0
    /\ nFitScale = 0 /\ nFitScalex = 0
    /\ funcArg = "" /\ lastPred = <<>>
    /\ scx = <<>> /\ scxs = <<>>

\* (a variant of in_range: the loop stops one iteration early)
in_range_short(n) == n < epochs - 1

\* for epoch in range(self.epochs): n iterations done, another one follows
in_range(n) == n < epochs

\* (a variant of next_epoch: the counter is not advanced)
next_epoch_skip(e) == e

\* self.epoch += 1
next_epoch(e) == e + 1

\* (a variant of hist_append: the entry is inserted at the front)
hist_prepend(h, e) == <<e>> \o h

\* self.hist.append(...)
hist_append(h, e) == Append(h, e)

\* (a variant of fit_return_value: only the entries of this call are returned)
fit_return_value_new_only == SubSeq(hist, h0 + 1, Len(hist))

\* np.array(self.hist)
fit_return_value == hist

\* an exception leaves fit: the call is over, nothing is returned
Raise(op) ==
    /\ pc' = "idle" /\ k' = 0 /\ bc' = <<>> /\ cp' = <<>>
    /\ ret' = Error
    /\ lastOp' = op

\* --------------------------------------------------------------------- fit
\* fit, up to the phase-1 loop: the normalizer is fitted on the boundary data
\* and applied to the collocation points
fit(bcIn, cpIn) ==
    /\ pc = "idle"
    /\ fitCalls < MaxFits
    /\ LET x_bc == ColsTo(bcIn, 2)
           y_bc == ColsFrom(bcIn, 2)
           ym == fit_scale_ymax(y_bc)
           mx == fit_scalex_xmax(x_bc)
           mn == fit_scalex_xmin(x_bc)
           at == attrs \cup {"ymax", "xmax", "xmin"}
           cps == scalex(cpIn, at, mn, mx)
       IN  /\ ymax' = ym /\ xmax' = mx /\ xmin' = mn /\ attrs' = at
           /\ IF cps.ok
              THEN /\ pc' = "phase1" /\ k' = 0
                   /\ bc' = concat(fit_scalex(x_bc), fit_scale(y_bc))
                   /\ cp' = cps.val
                   /\ ret' = None
                   /\ lastOp' = "fit"
              ELSE Raise("fit_raise")
    /\ fitCalls' = fitCalls + 1
    /\ h0' = Len(hist)
    /\ inW' = <<Width(bcIn), Width(cpIn)>>
    /\ nClosure' = 0 /\ nMinimize' = 0 /\ nReturned' = 0 /\ nApplied' = 0
    /\ nFitScale' = 1 /\ nFitScalex' = 1
    /\ funcRet' = <<>> /\ funcArg' = "" /\ lastPred' = <<>>
    /\ UNCHANGED <<obj, scl>>

\* (a variant of Phase1Epoch: the step fits the input scale again, on the
\* boundary coordinates it was handed, which are already scaled to [0, 1])
Phase1Epoch_refit ==
    /\ pc = "phase1"
    /\ in_range(k)
    /\ LET ts == train_step(trainable_variables, bc, cp, attrs, xmin, ymax)
       IN  IF ts.ok
           THEN /\ trainable_variables' = optimizer[trainable_variables]
                /\ nApplied' = nApplied + 1
                /\ epoch' = next_epoch(epoch)
                /\ hist' = hist_append(hist, Entry(ts.hist, 1))
                /\ k' = k + 1
                /\ lastOp' = "epoch"
                /\ UNCHANGED <<pc, bc, cp, ret>>
           ELSE /\ Raise("epoch_raise")
                /\ UNCHANGED <<trainable_variables, nApplied, epoch, hist>>
    /\ xmin' = <<0, 0>> /\ xmax' = <<1, 1>> /\ nFitScalex' = nFitScalex + 1
    /\ UNCHANGED <<optimizer, epochs, attrs, ymax, funcRet, fitCalls, h0, inW,
                   nClosure, nMinimize, nReturned, nFitScale, funcArg, lastPred, scl>>

\* one iteration of the phase-1 loop
Phase1Epoch ==
    /\ pc = "phase1"
    /\ in_range(k)
    /\ LET ts == train_step(trainable_variables, bc, cp, attrs, xmin, ymax)
       IN  IF ts.ok
           THEN /\ trainable_variables' = optimizer[trainable_variables]
                /\ nApplied' = nApplied + 1
                /\ epoch' = next_epoch(epoch)
                /\ hist' = hist_append(hist, Entry(ts.hist, 1))
                /\ k' = k + 1
                /\ lastOp' = "epoch"
                /\ UNCHANGED <<pc, bc, cp, ret>>
           ELSE /\ Raise("epoch_raise")
                /\ UNCHANGED <<trainable_variables, nApplied, epoch, hist>>
    /\ UNCHANGED <<optimizer, epochs, norm, funcRet, fitCalls, h0, inW, nClosure,
                   nMinimize, nReturned, nFitScale, nFitScalex, funcArg, lastPred, scl>>

\* the loop is exhausted: self.sopt.minimize(func) is called
minimize ==
    /\ pc = "phase1"
    /\ ~in_range(k)
    /\ pc' = "phase2"
    /\ nMinimize' = nMinimize + 1
    /\ lastOp' = "minimize"
    /\ UNCHANGED <<obj, norm, k, bc, cp, outs, fitCalls, h0, inW, nClosure,
                   nReturned, nApplied, nFitScale, nFitScalex, funcArg, lastPred, scl>>

\* (a variant of func: loss and gradient are evaluated before the vector is
\* installed)
func_stale(params_1d) ==
    /\ pc = "phase2"
    /\ nClosure < MaxClosure
    /\ trainable_variables' = assign_params(params_1d)
    /\ nClosure' = nClosure + 1
    /\ funcArg' = params_1d
    /\ LET ts == train_step(trainable_variables, bc, cp, attrs, xmin, ymax)
       IN  IF ts.ok
           THEN /\ epoch' = next_epoch(epoch)
                /\ hist' = hist_append(hist, Entry(ts.hist, 2))
                /\ funcRet' = <<ts.loss, dynamic_stitch(ts.grads)>>
                /\ lastOp' = "func"
                /\ UNCHANGED <<pc, k, bc, cp, ret>>
           ELSE /\ Raise("func_raise")
                /\ UNCHANGED <<epoch, hist, funcRet>>
    /\ UNCHANGED <<optimizer, epochs, norm, fitCalls, h0, inW, nMinimize, nReturned,
                   nApplied, nFitScale, nFitScalex, lastPred, scl>>

\* the optimizer invokes the closure func with a flat vector
func(params_1d) ==
    /\ pc = "phase2"
    /\ nClosure < MaxClosure
    /\ trainable_variables' = assign_params(params_1d)
    /\ nClosure' = nClosure + 1
    /\ funcArg' = params_1d
    /\ LET ts == train_step(trainable_variables', bc, cp, attrs, xmin, ymax)
       IN  IF ts.ok
           THEN /\ epoch' = next_epoch(epoch)
                /\ hist' = hist_append(hist, Entry(ts.hist, 2))
                /\ funcRet' = <<ts.loss, dynamic_stitch(ts.grads)>>
                /\ lastOp' = "func"
                /\ UNCHANGED <<pc, k, bc, cp, ret>>
           ELSE /\ Raise("func_raise")
                /\ UNCHANGED <<epoch, hist, funcRet>>
    /\ UNCHANGED <<optimizer, epochs, norm, fitCalls, h0, inW, nMinimize, nReturned,
                   nApplied, nFitScale, nFitScalex, lastPred, scl>>

\* minimize returns; the parameters stay as the last closure invocation left them
minimize_return ==
    /\ pc = "phase2"
    /\ pc' = "done"
    /\ nReturned' = nReturned + 1
    /\ lastOp' = "minimize_return"
    /\ UNCHANGED <<obj, norm, k, bc, cp, outs, fitCalls, h0, inW, nClosure,
                   nMinimize, nApplied, nFitScale, nFitScalex, funcArg, lastPred, scl>>

\* return np.array(self.hist)
fit_return ==
    /\ pc = "done"
    /\ pc' = "idle" /\ k' = 0 /\ bc' = <<>> /\ cp' = <<>>
    /\ ret' = [kind |-> "hist", val |-> fit_return_value]
    /\ lastOp' = "fit_return"
    /\ UNCHANGED <<obj, norm, funcRet, fitCalls, h0, inW, nClosure, nMinimize,
                   nReturned, nApplied, nFitScale, nFitScalex, funcArg, lastPred, scl>>

\* ----------------------------------------------------------------- predict
\* the value predict returns for points c, [ok |-> FALSE] when it raises
predict_value(c, th, at, mn, mx, ym) ==
    LET xs == scalex(c, at, mn, mx)
    IN  IF /\ xs.ok
           /\ Width(xs.val) = ApproxIn                    \* u_p = self.model(cp)
           /\ scale_r_width(ApproxOut, at, ym) # -1       \* self.scale_r(u_p)
        THEN [kind |-> "pred", val |-> <<"scale_r", ym, <<"model", th, xs.val>> >>]
        ELSE Error

\* (a variant of predict: the input scale is fitted on the points handed in)
predict_refit(c) ==
    /\ pc = "idle"
    /\ xmin' = fit_scalex_xmin(c) /\ xmax' = fit_scalex_xmax(c)
    /\ attrs' = attrs \cup {"xmin", "xmax"}
    /\ ret' = predict_value(c, trainable_variables, attrs', xmin', xmax', ymax)
    /\ lastPred' = <<c, ret', lastPred # <<>> /\ lastPred[1] = c>>
    /\ lastOp' = "predict"
    /\ UNCHANGED <<obj, ymax, call, funcRet, fitCalls, h0, inW, nClosure, nMinimize,
                   nReturned, nApplied, nFitScale, nFitScalex, funcArg, scl>>

predict(c) ==
    /\ pc = "idle"
    /\ ret' = predict_value(c, trainable_variables, attrs, xmin, xmax, ymax)
    /\ lastPred' = <<c, ret', lastPred # <<>> /\ lastPred[1] = c>>
    /\ lastOp' = "predict"
    /\ UNCHANGED <<obj, norm, call, funcRet, fitCalls, h0, inW, nClosure, nMinimize,
                   nReturned, nApplied, nFitScale, nFitScalex, funcArg, scl>>

Next ==
    \/ \E d \in FitInputs : fit(d[1], d[2])
    \/ Phase1Epoch
    \/ minimize
    \/ \E p \in FlatParams : func(p)
    \/ minimize_return
    \/ fit_return
    \/ \E c \in PredictInputs : predict(c)

Spec == Init /\ [][Next]_vars

\* ------------------------------------------------ the normalizer on its own
\* the inputs x handed to the normalizer: two rows of two coordinates
ScaleInputs == [1..2 -> [1..2 -> (-MaxAbs)..MaxAbs]]

InitScale ==
    /\ trainable_variables = InitParams
    /\ optimizer = CHOOSE r \in OptRules : TRUE
    /\ epochs = 0
    /\ hist = <<>>
    /\ epoch = 0
    /\ attrs = {}
    /\ xmin = <<>> /\ xmax = <<>> /\ ymax = <<>>
    /\ pc = "idle" /\ k = 0 /\ bc = <<>> /\ cp = <<>>
    /\ ret = None /\ funcRet = <<>>
    /\ lastOp = "init" /\ fitCalls = 0 /\ h0 = 0 /\ inW = <<0, 0>>
    /\ nClosure = 0 /\ nMinimize = 0 /\ nReturned = 0 /\ nApplied = 0
    /\ nFitScale = 0 /\ nFitScalex = 0
    /\ funcArg = "" /\ lastPred = <<>>
    /\ scx \in ScaleInputs /\ scxs = <<>>

\* fit_scalex(x) called on its own
fit_input ==
    /\ "xmin" \notin attrs
    /\ xmax' = fit_scalex_xmax(scx)
    /\ xmin' = fit_scalex_xmin(scx)
    /\ attrs' = attrs \cup {"xmin", "xmax"}
    /\ scxs' = fit_scalex(scx)
    /\ nFitScalex' = nFitScalex + 1
    /\ lastOp' = "fit_scalex"
    /\ UNCHANGED <<obj, ymax, call, outs, fitCalls, h0, inW, nClosure, nMinimize,
                   nReturned, nApplied, nFitScale, funcArg, lastPred, scx>>

\* scalex(x) called on its own
scale_input ==
    /\ lastOp # "scalex_raise"
    /\ LET xs == scalex(scx, attrs, xmin, xmax)
       IN  /\ scxs' = xs.val
           /\ lastOp' = IF xs.ok THEN "scalex" ELSE "scalex_raise"
    /\ UNCHANGED <<obj, norm, call, outs, fitCalls, h0, inW, nClosure, nMinimize,
                   nReturned, nApplied, nFitScale, nFitScalex, funcArg, lastPred, scx>>

NextScale == fit_input \/ scale_input

SpecScale == InitScale /\ [][NextScale]_vars

\* ------------------------------------------------------------------ claims
\* C1 (as stated): the history a fit call returns has length epochs + the number
\* of closure invocations of that call, for every fit call on the object.
C1_ReturnedLengthIsEpochsPlusClosures ==
    ret.kind = "hist" => Len(ret.val) = epochs + nClosure

\* C1 (amended): the history a fit call returns has the length the history had
\* when the call began plus epochs plus the closure invocations of the call; it
\* is epochs plus closure invocations when the history was empty at the start,
\* as in the first fit call on an object.
C1_ReturnedLengthGrowsByEpochsPlusClosures ==
    ret.kind = "hist" =>
        /\ Len(ret.val) = h0 + epochs + nClosure
        /\ ret.val = hist
        /\ (fitCalls = 1 => Len(ret.val) = epochs + nClosure)

C1_Witness ==
    /\ ret.kind = "hist" /\ fitCalls = 2
    /\ h0 > 0 /\ epochs > 0 /\ nClosure > 0

PhaseOrdered(h, a, b) == ~(h[a].phase = 2 /\ h[b].phase = 1)

\* C2 (as stated): in the history every entry appended by a phase-1 epoch
\* precedes every entry appended by a phase-2 closure invocation.
C2_Phase1EntriesPrecedePhase2Entries ==
    \A a, b \in 1..Len(hist) : a < b => PhaseOrdered(hist, a, b)

\* C2 (amended): the history is append-only and ordered by call sequence: a step
\* leaves it unchanged or appends one entry at its end, every phase-1 epoch and
\* every closure invocation that completes appends exactly one (total, boundary,
\* PDE) triple, and among the entries appended by one fit call the phase-1
\* entries precede the phase-2 entries.
C2_AppendOnlyOrderedWithinCall ==
    [][/\ \/ hist' = hist
          \/ /\ Len(hist') = Len(hist) + 1
             /\ SubSeq(hist', 1, Len(hist)) = hist
       /\ lastOp' \in {"epoch", "func"} =>
             /\ Len(hist') = Len(hist) + 1
             /\ LET t == hist'[Len(hist')].triple
                IN  Len(t) = 3 /\ t[1] = <<"add", t[2], t[3]>>
       /\ \A a, b \in 1..Len(hist') :
             (a < b /\ hist'[a].call = hist'[b].call) => PhaseOrdered(hist', a, b)
      ]_vars

C2_Witness ==
    /\ Len(hist) >= 4 /\ fitCalls = 2
    /\ \E a, b \in 1..Len(hist) : a < b /\ ~PhaseOrdered(hist, a, b)
    /\ \E a, b \in 1..Len(hist) :
          /\ a < b /\ hist[a].call = 2 /\ hist[b].call = 2
          /\ hist[a].phase = 1 /\ hist[b].phase = 2

\* C3: in a fit call minimize is invoked once, after all configured phase-1
\* epochs (also when there are none); from then on no apply_gradients happens in
\* the call, the closure runs only inside minimize, and fit returns only after
\* minimize has returned.
C3_PhasesSequential ==
    /\ nMinimize <= 1 /\ nReturned <= nMinimize /\ nApplied <= epochs
    /\ pc = "phase1" =>
          /\ nMinimize = 0 /\ nReturned = 0 /\ nClosure = 0
          /\ nApplied = k /\ k <= epochs
    /\ pc = "phase2" => nMinimize = 1 /\ nReturned = 0 /\ nApplied = epochs
    /\ pc = "done" => nMinimize = 1 /\ nReturned = 1 /\ nApplied = epochs
    /\ lastOp \in {"func", "func_raise"} => nMinimize = 1 /\ nApplied = epochs
    /\ ret.kind = "hist" => nMinimize = 1 /\ nReturned = 1 /\ nApplied = epochs

C3_Witness ==
    /\ lastOp = "fit_return" /\ epochs = 0 /\ nMinimize = 1 /\ nClosure > 0

\* C4: predict on an object on which fit has never been run raises, and leaves
\* the history, the epoch counter and the parameters as the constructor set them.
C4_PredictBeforeFitRaises ==
    (lastOp = "predict" /\ fitCalls = 0) =>
        /\ ret.kind = "error"
        /\ hist = <<>> /\ epoch = 0
        /\ trainable_variables = InitParams

C4_Witness == lastOp = "predict" /\ fitCalls = 0 /\ ret.kind = "error"

\* C5: a predict call changes neither the parameters, the normalization state,
\* the history nor the epoch counter, and a predict call handed the points of
\* the predict call before it, with no fit between them, returns the same value.
C5_PredictReadOnly ==
    [][lastOp' = "predict" =>
          /\ UNCHANGED <<trainable_variables, attrs, xmin, xmax, ymax, hist, epoch>>
          /\ (lastPred # <<>> /\ lastPred'[1] = lastPred[1]) =>
                (ret'.kind = lastPred[2].kind /\ ret'.val = lastPred[2].val)
      ]_vars

C5_Witness ==
    /\ lastOp = "predict" /\ ret.kind = "pred" /\ fitCalls > 0
    /\ lastPred[3] /\ Len(hist) > 0

\* C6: a fit call fits the output scale once and the input scale once, before
\* its first training step, and no phase-1 epoch, closure invocation, minimize
\* call or return, fit return or predict call changes xmin, xmax or ymax.
C6_NormalizationFittedOncePerFit ==
    [][/\ lastOp' \in {"fit", "fit_raise"} =>
             /\ nFitScale' = 1 /\ nFitScalex' = 1
             /\ hist' = hist /\ nApplied' = 0 /\ nClosure' = 0
       /\ lastOp' \notin {"fit", "fit_raise"} =>
             /\ UNCHANGED <<attrs, xmin, xmax, ymax>>
             /\ UNCHANGED <<nFitScale, nFitScalex>>
      ]_vars

C6_Witness ==
    /\ lastOp = "predict" /\ fitCalls = 1 /\ nFitScale = 1 /\ nFitScalex = 1
    /\ nApplied > 0 /\ nClosure > 0 /\ ret.kind = "pred"
    /\ xmin = fit_scalex_xmin(ColsTo(BcOf(5), 2))

\* C7: fit_scalex stores the componentwise minimum and maximum of x, and
\* afterwards scalex maps the smallest value of each column to 0 and the largest
\* to 1 (stated for the columns whose values are not all equal).
C7_FittedMinMaxScaleToUnitRange ==
    lastOp \in {"fit_scalex", "scalex"} =>
        \A j \in 1..Width(scx) :
            LET lo == MinOf(Column(scx, j))
                hi == MaxOf(Column(scx, j))
            IN  lo < hi =>
                  /\ xmin[j] = lo /\ xmax[j] = hi
                  /\ \A r \in 1..Rows(scx) :
                        /\ scx[r][j] = lo => scxs[r][j] = <<0, 1>>
                        /\ scx[r][j] = hi => scxs[r][j] = <<1, 1>>

\* the widths of the contract: boundary rows of 2 coordinates and 3 targets,
\* collocation rows of 2 coordinates
ContractWidths == <<ApproxIn + ApproxOut, ApproxIn>>

\* C8: a fit call handed boundary rows that are not 5 wide or collocation rows
\* that are not 2 wide raises before any training step: no phase-1 epoch and no
\* closure invocation of it completes, it appends nothing to the history and
\* applies no update.
C8_BadWidthFailsFast ==
    (fitCalls > 0 /\ inW # ContractWidths) =>
        /\ Len(hist) = h0
        /\ nApplied = 0
        /\ lastOp \notin {"epoch", "func"}

\* C9: a closure invocation that returns has installed the flat vector it was
\* handed, has evaluated loss and gradient on the installed parameters, has
\* appended exactly one triple, has advanced the epoch counter by one, has not
\* applied the phase-1 optimizer, and returns the loss and the gradient
\* flattened with the optimizer's index map.
C9_ClosureStep ==
    [][lastOp' = "func" =>
          /\ pc = "phase2"
          /\ trainable_variables' = funcArg'
          /\ Len(hist') = Len(hist) + 1
          /\ SubSeq(hist', 1, Len(hist)) = hist
          /\ LET t == hist'[Len(hist')].triple
             IN  /\ t[2] = <<"loss_bc", funcArg', Shape(bc)>>
                 /\ t[3] = <<"loss_f", funcArg', Shape(cp)>>
                 /\ t[1] = <<"add", t[2], t[3]>>
                 /\ funcRet' = <<t[1], <<"stitch", "sopt.idx",
                                         <<"grad", funcArg', Shape(bc), Shape(cp)>> >> >>
          /\ epoch' = epoch + 1
          /\ nApplied' = nApplied
          /\ nClosure' = nClosure + 1
      ]_vars

C9_Witness ==
    /\ lastOp = "func" /\ nClosure = 2 /\ nApplied > 0
    /\ trainable_variables = funcArg
    /\ hist[Len(hist)].phase = 2
    /\ hist[Len(hist) - 1].phase = 2
    /\ hist[Len(hist)].triple[2][2] # hist[Len(hist) - 1].triple[2][2]

\* C10: between steps the epoch counter equals the length of the history,
\* neither ever decreases, and the epoch index printed at the start of a step
\* is the (0-based) index at which the step's triple is stored.
C10_EpochCounterIsHistoryLength ==
    /\ [](/\ epoch = Len(hist)
          /\ \A n \in 1..Len(hist) : hist[n].logged = n - 1)
    /\ [][epoch' >= epoch /\ Len(hist') >= Len(hist)]_vars

C10_Witness ==
    /\ fitCalls = 2 /\ lastOp = "predict" /\ h0 > 0
    /\ Len(hist) > h0 /\ epoch = Len(hist)

====
